---- MODULE Spec2Model ----
(***************************************************************************)
(* Model of assets/js/nodeca-io.js: the api3 request/response correlation  *)
(* of nodeca.io (apiTree, the response subscription of io.init, the        *)
(* transport:up / transport:down listeners, on/off/emit).                   *)
(*                                                                         *)
(* Every JavaScript callback run (an apiTree call, a timer job, a Faye     *)
(* deferrable callback, a Faye event or message delivery) is one atomic    *)
(* action: the browser runs them to completion on a single thread.         *)
(* Caller supplied callbacks and event handlers are opaque: the model only *)
(* records each invocation together with its arguments.                    *)
(***************************************************************************)
EXTENDS Integers, Sequences, FiniteSets, TLC

\* ---------------------------------------------------------------- bounds
MaxCalls    == 2      \* apiTree invocations explored
MaxLog      == 2      \* invocations of one callback after which no further
                      \* transport:down is explored

\* ------------------------------------------------------- small input sets
Names        == {"echo"}
Handlers     == {"h1"}
EventNames   == {"api3:version-mismatch"}
ClientVersion == "A"                 \* nodeca.runtime.version
Versions     == {"A", "B"}           \* versions a response may carry
ResultValues == {"R"}                \* msg.result of a response

VARIABLES
  connected,     \* line 24
  last_msg_id,   \* api3.last_msg_id
  callbacks,     \* api3.callbacks: id -> the apiTree invocation owning the handler
  events,        \* events: event name -> sequence of handlers (<< >> for a
                 \* name without entry: every read is events[event] || [])
  calls,         \* one record per apiTree invocation (its closure variables
                 \* id, name, timeout; its publish deferrable; the msg its
                 \* response handler was run with; the log of the
                 \* invocations of its callback; nested: the call was made
                 \* from inside a callback; held: the registry held the
                 \* call's entry while its callback ran)
  downListeners, \* per-call listeners bound to 'transport:down', in bind order
  link,          \* the last signal of the transport: "init", "up", "down"
  emitted,       \* the event handler invocations made by the last emit
  discarded      \* TRUE when the step just taken dropped a response

vars == <<connected, last_msg_id, callbacks, events, calls, downListeners,
          link, emitted, discarded>>

\* ------------------------------------------------------------ error codes
ENOCONN   == "IO_ENOCONN"
ETIMEOUT  == "IO_ETIMEOUT"
EWRONGVER == "IO_EWRONGVER"
\* io.ECONNGONE is read at line 215 but never assigned: the property read
\* yields undefined.
ECONNGONE == "undefined"

\* function ioerr(code, message): an Error carrying err.code
ioerr(code, message) == [kind |-> "Error", code |-> code, message |-> message]

\* the value of an absent argument or property
Undefined == [kind |-> "undefined", code |-> "undefined", message |-> "undefined"]

\* the error object Faye hands to the errback of a rejected publish
FayeError == [kind |-> "Error", code |-> "FAYE", message |-> "publish rejected"]

\* an error reported by the server in msg.err
ServerErr == [kind |-> "Error", code |-> "SERVER", message |-> "E"]

\* msg.err of a response: absent or present
ErrValues == {Undefined, ServerErr}

\* no msg: the response handler has not run
NoMsg == [version |-> "none", err |-> Undefined, result |-> "undefined"]

\* msg of a response: with the client's version, a result and possibly an
\* err; with another version (err and result are not read then)
Messages ==
  [version : {ClientVersion}, err : ErrValues, result : ResultValues]
    \cup [version : Versions \ {ClientVersion}, err : {Undefined},
          result : ResultValues]

\* a response envelope {id, msg: {version, err, result}}
Envelopes == [id : 0..(MaxCalls - 1), msg : Messages]

\* -------------------------------------------------------------- helpers
Put(f, k, v) == [x \in (DOMAIN f) \cup {k} |-> IF x = k THEN v ELSE f[x]]
Delete(f, k) == [x \in (DOMAIN f) \ {k} |-> f[x]]
Without(s, e) == SelectSeq(s, LAMBDA x : x # e)

\* callback(err, result): the invocation is appended to the call's log
Invoke(cs, i, err, result) ==
  [cs EXCEPT ![i].log = Append(@, [err |-> err, result |-> result])]

\* stop_timer: clearTimeout(timeout); timeout = null
stop_timer(cs, i) == [cs EXCEPT ![i].timeout = "null"]

\* what the callback of invocation i finds when it runs: cs with the
\* call's held set when the registry cbs has the call's entry
Observe(cs, i, cbs) ==
  [cs EXCEPT ![i].held = @ \/ (cs[i].id \in DOMAIN cbs)]

\* handle_error that leaves the registry entry in place
handle_error_NoDelete(st, i, err) ==
  [st EXCEPT
     !.calls = Invoke(Observe(stop_timer(st.calls, i), i, st.callbacks),
                      i, err, "undefined")]

\* handle_error that empties the whole registry
handle_error_ClearAll(st, i, err) ==
  [st EXCEPT
     !.callbacks = << >>,
     !.calls = Invoke(stop_timer(st.calls, i), i, err, "undefined")]

\* handle_error that calls back before it deletes the registry entry
handle_error_CallbackFirst(st, i, err) ==
  [st EXCEPT
     !.callbacks = Delete(st.callbacks, st.calls[i].id),
     !.calls = Invoke(Observe(stop_timer(st.calls, i), i, st.callbacks),
                      i, err, "undefined")]

\* handle_error(err) of invocation i, on a record st of the module state
\* (fields calls and callbacks, other fields untouched): stop_timer();
\* delete api3.callbacks[id]; callback(err)
handle_error(st, i, err) ==
  LET cbs == Delete(st.callbacks, st.calls[i].id) IN
  [st EXCEPT
     !.callbacks = cbs,
     !.calls = Invoke(Observe(stop_timer(st.calls, i), i, cbs),
                      i, err, "undefined")]

\* handle_transport_down of invocation i
handle_transport_down(st, i) ==
  handle_error(st, i, ioerr(ECONNGONE, "Server gone. (RT)"))

\* --------------------------------------------------------------- apiTree
\* a counter that is read but not advanced
NextMsgId_Stuck(n) == n

\* var id = api3.last_msg_id++
NextMsgId(n) == n + 1

\* a connection check that never rejects
NoConnection_Never(c) == FALSE

\* if (!connected)
NoConnection(c) == ~c

\* the closure of an apiTree invocation that returned at line 190
RejectedCall(st, name, nested) ==
  [id |-> st.last_msg_id, name |-> name, conn |-> st.connected,
   timeout |-> "undefined", pub |-> "none", resp |-> NoMsg,
   nested |-> nested, held |-> FALSE,
   log |-> << [err |-> ioerr(ENOCONN, "Cannot connect to server (RT)."),
               result |-> "undefined"] >>]

\* the closure of an apiTree invocation that ran to line 250
IssuedCall(st, name, nested) ==
  [id |-> st.last_msg_id, name |-> name, conn |-> st.connected,
   timeout |-> "armed", pub |-> "pending", resp |-> NoMsg,
   nested |-> nested, held |-> FALSE, log |-> << >>]

\* an apiTree that takes its identifier after the connection check
apiTree_IdAfterCheck(st, name, nested) ==
  IF NoConnection(st.connected)
  THEN [st EXCEPT !.calls = Append(@, RejectedCall(st, name, nested))]
  ELSE [st EXCEPT
          !.last_msg_id = NextMsgId(@),
          !.downListeners = Append(@, Len(st.calls) + 1),
          !.callbacks = Put(@, st.last_msg_id, Len(st.calls) + 1),
          !.calls = Append(@, IssuedCall(st, name, nested))]

\* io.apiTree(name, params, options, callback) on a record st of the module
\* state (connected, last_msg_id, calls, callbacks, downListeners);
\* nested tells that the call is made from inside a callback
apiTree(st, name, nested) ==
  IF NoConnection(st.connected)
  THEN [st EXCEPT
          !.last_msg_id = NextMsgId(@),
          !.calls = Append(@, RejectedCall(st, name, nested))]
  ELSE [st EXCEPT
          !.last_msg_id = NextMsgId(@),
          !.downListeners = Append(@, Len(st.calls) + 1),
          !.callbacks = Put(@, st.last_msg_id, Len(st.calls) + 1),
          !.calls = Append(@, IssuedCall(st, name, nested))]

\* ----------------------------------------------------- transport signals
\* the listeners io.init binds: the new value of connected
TrackerUp(c) == TRUE

\* a transport:down listener that leaves the flag alone
TrackerDown_Keep(c) == c

TrackerDown(c) == FALSE

\* listeners bound after those of the calls
BoundDown_TrackerLast(ls) == ls \o << 0 >>

\* the listeners bound to 'transport:down' in bind order: the one io.init
\* binds (0), then the handle_transport_down of the calls ls
BoundDown(ls) == << 0 >> \o ls

\* one listener of 'transport:down' runs; retry: the callback that gets
\* the error issues the call again
RunDownListener(st, l, retry) ==
  IF l = 0
  THEN [st EXCEPT !.connected = TrackerDown(@)]
  ELSE LET s1 == handle_transport_down(st, l) IN
       IF retry /\ Len(s1.calls) < MaxCalls
       THEN apiTree(s1, s1.calls[l].name, TRUE)
       ELSE s1

\* a trigger that stops after the first listener of a call
RECURSIVE TriggerDown_First(_, _, _)
TriggerDown_First(st, ls, retry) ==
  IF ls = <<>> THEN st
  ELSE IF Head(ls) = 0
       THEN TriggerDown_First(RunDownListener(st, Head(ls), retry), Tail(ls), retry)
       ELSE RunDownListener(st, Head(ls), retry)

\* Faye's trigger('transport:down'): runs the listeners in bind order
RECURSIVE TriggerDown(_, _, _)
TriggerDown(st, ls, retry) ==
  IF ls = <<>> THEN st
  ELSE TriggerDown(RunDownListener(st, Head(ls), retry), Tail(ls), retry)

\* the module state as a record
Cur ==
  [connected |-> connected, last_msg_id |-> last_msg_id, calls |-> calls,
   callbacks |-> callbacks, downListeners |-> downListeners]

\* ------------------------------------------------------------------ Init
Init ==
  /\ connected = FALSE
  /\ last_msg_id = 0
  /\ callbacks = << >>
  /\ events = [e \in EventNames |-> << >>]
  /\ calls = << >>
  /\ downListeners = << >>
  /\ link = "init"
  /\ emitted = << >>
  /\ discarded = FALSE

\* ------------------------------------------------- transport signals (2)
\* bayeux.bind('transport:up', function () { connected = true; })
LinkUp ==
  /\ link # "up"
  /\ link' = "up"
  /\ connected' = TrackerUp(connected)
  /\ UNCHANGED <<last_msg_id, callbacks, events, calls, downListeners,
                 emitted>>
  /\ discarded' = FALSE

\* 'transport:down': the listener bound by io.init runs first, then the
\* handle_transport_down of every apiTree invocation still bound
LinkDown(retry) ==
  /\ link # "down"
  /\ \A k \in 1..Len(downListeners) : Len(calls[downListeners[k]].log) < MaxLog
  /\ link' = "down"
  /\ LET st == TriggerDown(Cur, BoundDown(downListeners), retry)
     IN  /\ connected' = st.connected
         /\ last_msg_id' = st.last_msg_id
         /\ calls' = st.calls
         /\ callbacks' = st.callbacks
         /\ downListeners' = st.downListeners
  /\ UNCHANGED <<events, emitted>>
  /\ discarded' = FALSE

\* ------------------------------------------------------- on / off / emit
\* events[event] || []
HandlersOf(event) == events[event]

\* io.on(event, handler); a handler is registered once
On(event, handler) ==
  /\ \A k \in 1..Len(HandlersOf(event)) : HandlersOf(event)[k] # handler
  /\ events' = Put(events, event, Append(HandlersOf(event), handler))
  /\ UNCHANGED <<connected, last_msg_id, callbacks, calls, downListeners,
                 link, emitted>>
  /\ discarded' = FALSE

\* io.off(event[, handler]); handler = "undefined" when omitted
Off(event, handler) ==
  /\ events' = Put(events, event,
                   IF handler = "undefined" THEN << >>
                   ELSE Without(HandlersOf(event), handler))
  /\ UNCHANGED <<connected, last_msg_id, callbacks, calls, downListeners,
                 link, emitted>>
  /\ discarded' = FALSE

\* JavaScript values handed to Function.prototype.apply as argArray
Arr(items) == [kind |-> "array", val |-> items]
Obj(fields) == [kind |-> "object", val |-> fields]

\* the argument list handler.apply(null, args) calls the handler with:
\* the elements of an array; an object without length has no elements
ApplyArgs(args) == IF args.kind = "array" THEN args.val ELSE << >>

\* handler.apply(null, args) can throw a TypeError when args is neither an
\* array nor an arguments object (ES3 and ES5 engines; ES5.1 engines call
\* the handler without arguments): strict = the engine throws
ApplyThrows(args, strict) == args.kind # "array" /\ strict

\* emit(event, args): [threw, log of the handler invocations made]
emit(event, args, strict) ==
  LET hs == HandlersOf(event) IN
  IF hs # << >> /\ ApplyThrows(args, strict)
  THEN [threw |-> TRUE, log |-> << >>]
  ELSE [threw |-> FALSE,
        log |-> [k \in 1..Len(hs) |->
                  [event |-> event, handler |-> hs[k],
                   args |-> ApplyArgs(args)]]]

\* the args apiTree passes to emit at lines 228-231
MismatchArgs(msg) == Obj([client |-> ClientVersion, server |-> msg.version])

\* ------------------------------------------------------ the operations
\* io.apiTree(name, params, options, callback) called from the page
ApiTree(name) ==
  /\ Len(calls) < MaxCalls
  /\ LET st == apiTree(Cur, name, FALSE)
     IN  /\ last_msg_id' = st.last_msg_id
         /\ calls' = st.calls
         /\ callbacks' = st.callbacks
         /\ downListeners' = st.downListeners
  /\ UNCHANGED <<connected, events, link, emitted>>
  /\ discarded' = FALSE

\* the setTimeout job of invocation i (lines 241-243)
Timeout(i) ==
  /\ calls[i].timeout = "armed"
  /\ LET st == handle_error([calls |-> calls, callbacks |-> callbacks], i,
                  ioerr(ETIMEOUT, "Timeout " \o calls[i].name \o " execution."))
     IN  /\ calls' = st.calls
         /\ callbacks' = st.callbacks
  /\ UNCHANGED <<connected, last_msg_id, events, downListeners, link,
                 emitted>>
  /\ discarded' = FALSE

\* a publish acknowledgement that leaves the timer running
PublishDone_KeepsTimer(i) ==
  /\ calls[i].pub = "pending"
  /\ calls' = [calls EXCEPT ![i].pub = "accepted"]
  /\ UNCHANGED <<connected, last_msg_id, callbacks, events, downListeners,
                 link, emitted>>
  /\ discarded' = FALSE

\* the publish deferrable succeeds: .done(stop_timer)
PublishDone(i) ==
  /\ calls[i].pub = "pending"
  /\ calls' = [stop_timer(calls, i) EXCEPT ![i].pub = "accepted"]
  /\ UNCHANGED <<connected, last_msg_id, callbacks, events, downListeners,
                 link, emitted>>
  /\ discarded' = FALSE

\* the publish deferrable fails: .fail(handle_error)
PublishFail(i) ==
  /\ calls[i].pub = "pending"
  /\ LET st == handle_error([calls |-> calls, callbacks |-> callbacks], i,
                             FayeError)
     IN  /\ calls' = [st.calls EXCEPT ![i].pub = "rejected"]
         /\ callbacks' = st.callbacks
  /\ UNCHANGED <<connected, last_msg_id, events, downListeners, link,
                 emitted>>
  /\ discarded' = FALSE

\* a forwarding that always reports success
CallbackArgs_NullErr(msg) == [err |-> Undefined, result |-> msg.result]

\* callback(msg.err, msg.result)
CallbackArgs(msg) == [err |-> msg.err, result |-> msg.result]

\* a response handler that leaves the timer running
ResponseHandler_NoStop(i, msg, strict) ==
  LET cs == [calls EXCEPT ![i].resp = msg]
      seen == Observe(cs, i, callbacks')
  IN
  /\ downListeners' = Without(downListeners, i)
  /\ IF msg.version # ClientVersion
     THEN LET em == emit("api3:version-mismatch", MismatchArgs(msg), strict) IN
          /\ emitted' = em.log
          /\ calls' = IF em.threw THEN cs
                      ELSE Invoke(seen, i,
                             ioerr(EWRONGVER, "Client version does not match server."),
                             "undefined")
     ELSE /\ calls' = Invoke(seen, i, CallbackArgs(msg).err, CallbackArgs(msg).result)
          /\ emitted' = emitted

\* api3.callbacks[id] = function (msg) {...} of invocation i (lines 221-238)
ResponseHandler(i, msg, strict) ==
  LET cs == [stop_timer(calls, i) EXCEPT ![i].resp = msg]
      seen == Observe(cs, i, callbacks')
  IN
  /\ downListeners' = Without(downListeners, i)
  /\ IF msg.version # ClientVersion
     THEN LET em == emit("api3:version-mismatch", MismatchArgs(msg), strict) IN
          /\ emitted' = em.log
          /\ calls' = IF em.threw THEN cs
                      ELSE Invoke(seen, i,
                             ioerr(EWRONGVER, "Client version does not match server."),
                             "undefined")
     ELSE /\ calls' = Invoke(seen, i, CallbackArgs(msg).err, CallbackArgs(msg).result)
          /\ emitted' = emitted

\* a subscription that forgets delete api3.callbacks[data.id]
Dispatch_NoDelete(data, strict) ==
  /\ IF data.id \notin DOMAIN callbacks
     THEN /\ discarded' = TRUE
          /\ UNCHANGED <<callbacks, calls, downListeners, emitted>>
     ELSE /\ callbacks' = callbacks
          /\ ResponseHandler(callbacks[data.id], data.msg, strict)
          /\ discarded' = FALSE
  /\ UNCHANGED <<connected, last_msg_id, events, link>>

\* the subscription to api3.res_channel (lines 277-287)
Dispatch(data, strict) ==
  /\ IF data.id \notin DOMAIN callbacks
     THEN /\ discarded' = TRUE
          /\ UNCHANGED <<callbacks, calls, downListeners, emitted>>
     ELSE /\ callbacks' = Delete(callbacks, data.id)
          /\ ResponseHandler(callbacks[data.id], data.msg, strict)
          /\ discarded' = FALSE
  /\ UNCHANGED <<connected, last_msg_id, events, link>>

\* the envelopes to tell apart in the current state: data.msg is read only
\* when data.id has a registry entry (line 286), so one msg stands for all
\* in an envelope that is dropped
Inbound ==
  {d \in Envelopes :
     d.id \in DOMAIN callbacks
       \/ d.msg = [version |-> ClientVersion, err |-> Undefined, result |-> "R"]}

\* the engines to tell apart for an envelope: handler.apply is reached only
\* when a handler is registered and the versions differ (lines 63, 226)
Engines(d) ==
  IF /\ d.id \in DOMAIN callbacks
     /\ d.msg.version # ClientVersion
     /\ HandlersOf("api3:version-mismatch") # << >>
  THEN BOOLEAN ELSE {FALSE}

Next ==
  \/ LinkUp
  \/ \E retry \in BOOLEAN : LinkDown(retry)
  \/ \E e \in EventNames, h \in Handlers : On(e, h)
  \/ \E e \in EventNames, h \in Handlers \cup {"undefined"} : Off(e, h)
  \/ \E n \in Names : ApiTree(n)
  \/ \E i \in 1..Len(calls) : Timeout(i)
  \/ \E i \in 1..Len(calls) : PublishDone(i)
  \/ \E i \in 1..Len(calls) : PublishFail(i)
  \/ \E d \in Inbound : \E strict \in Engines(d) : Dispatch(d, strict)

Spec == Init /\ [][Next]_vars

\* ------------------------------------------------------------ vocabulary
CallIdx == 1..Len(calls)
Log(i) == calls[i].log
Registered(i) == calls[i].id \in DOMAIN callbacks
Bound(i) == \E k \in 1..Len(downListeners) : downListeners[k] = i
NoConnErr == ioerr(ENOCONN, "Cannot connect to server (RT).")
GoneErr == ioerr(ECONNGONE, "Server gone. (RT)")
TimeoutErr(i) == ioerr(ETIMEOUT, "Timeout " \o calls[i].name \o " execution.")
WrongVerErr == ioerr(EWRONGVER, "Client version does not match server.")
\* the state the code keeps, without the model's record of the last drop
progVars == <<connected, last_msg_id, callbacks, events, calls,
              downListeners, link, emitted>>

\* C1 (as claimed): the callback of a call is invoked at most once in
\* total, whatever the interleaving of response, timer, link-down and
\* publish outcome.
C1_AtMostOnce == \A i \in CallIdx : Len(Log(i)) <= 1

\* C2: a call issued while connected is false has its callback invoked
\* exactly once, inside apiTree, with the ENOCONN error; it has no registry
\* entry, no timer, no transport:down listener and no publish.
C2_NoConnection ==
  \A i \in CallIdx :
    ~calls[i].conn =>
      /\ Log(i) = << [err |-> NoConnErr, result |-> "undefined"] >>
      /\ ~Registered(i)
      /\ \A id \in DOMAIN callbacks : callbacks[id] # i
      /\ calls[i].timeout = "undefined"
      /\ ~Bound(i)
      /\ calls[i].pub = "none"

C2_Witness ==
  \E i \in CallIdx : ~calls[i].conn /\ Len(Log(i)) = 1 /\ link = "up"

\* C3 (as claimed): a response with the client's version delivered to an
\* outstanding call invokes the callback exactly once, with (no error,
\* msg.result) whatever err the envelope carries, and removes the registry
\* entry.
C3_NullError ==
  \A i \in CallIdx :
    calls[i].resp.version = ClientVersion =>
      /\ Log(i) = << [err |-> Undefined, result |-> calls[i].resp.result] >>
      /\ ~Registered(i)

\* C3 (amended): such a delivery is the first invocation of the callback,
\* made with (msg.err, msg.result), and removes the registry entry; no
\* other invocation of the callback carries a result.
C3_ForwardsErr ==
  \A i \in CallIdx :
    /\ calls[i].resp.version = ClientVersion =>
         /\ Log(i) # << >>
         /\ Log(i)[1] = [err |-> calls[i].resp.err,
                          result |-> calls[i].resp.result]
         /\ ~Registered(i)
    /\ \A k \in 1..Len(Log(i)) :
         Log(i)[k].result # "undefined" =>
           k = 1 /\ calls[i].resp.version = ClientVersion

C3_Witness ==
  \E i \in CallIdx :
    /\ calls[i].conn
    /\ Log(i) = << [err |-> ServerErr, result |-> "R"] >>
    /\ ~Registered(i)

\* C4 (as claimed): a call that was issued and has not been settled still
\* has its 30 second timer pending, so that it is settled by the timeout
\* when nothing else settles it.
C4_TimerPending ==
  \A id \in DOMAIN callbacks : calls[callbacks[id]].timeout = "armed"

\* C4 (amended): the timer is pending only while the call is outstanding
\* and its publish has neither been acknowledged nor rejected; when it
\* fires, the callback gets its first invocation, with the ETIMEOUT error,
\* and the registry entry is removed, so that a later response for the
\* identifier is dropped; the timer reports at most once.
C4_Timeout ==
  \A i \in CallIdx :
    /\ calls[i].timeout = "armed" =>
         calls[i].pub = "pending" /\ Registered(i) /\ Log(i) = << >>
    /\ \A k \in 1..Len(Log(i)) :
         Log(i)[k].err.code = ETIMEOUT =>
           /\ k = 1
           /\ Log(i)[k] = [err |-> TimeoutErr(i), result |-> "undefined"]
           /\ calls[i].timeout = "null"
           /\ ~Registered(i)
           /\ \A m \in 1..Len(Log(i)) : Log(i)[m].result = "undefined"

\* every identifier a response can carry belongs to a call settled by its
\* timer, and the step just taken dropped a response
C4_Witness ==
  /\ Len(calls) = MaxCalls
  /\ \A i \in CallIdx :
       Log(i) = << [err |-> TimeoutErr(i), result |-> "undefined"] >>
  /\ discarded

\* C5 (as claimed): a call settled by link-down has its callback invoked
\* exactly once: neither a later link-down nor anything else invokes it
\* again.
C5_GoneOnce ==
  \A i \in CallIdx :
    (Log(i) # << >> /\ Log(i)[1].err = GoneErr) => Len(Log(i)) = 1

\* C6 (as claimed): a call settled by the rejection of its publish has its
\* timer cleared, its transport:down listener unbound and its registry
\* entry removed, and no later event reaches the callback.
C6_RejectSettles ==
  \A i \in CallIdx :
    (Log(i) # << >> /\ Log(i)[1].err = FayeError) =>
      /\ calls[i].timeout = "null"
      /\ ~Bound(i)
      /\ ~Registered(i)
      /\ Len(Log(i)) = 1

\* C7 (as claimed): a response with another version than the client's gets
\* the callback its first invocation, with (EWRONGVER error, undefined),
\* and every version-mismatch notification reaches the handler with one
\* argument, the payload {client, server}.
C7_Notification ==
  /\ \A k \in 1..Len(emitted) :
       /\ emitted[k].event = "api3:version-mismatch"
       /\ Len(emitted[k].args) = 1
       /\ emitted[k].args[1].client = ClientVersion
       /\ emitted[k].args[1].server \in Versions \ {ClientVersion}
  /\ \A i \in CallIdx :
       calls[i].resp.version \in Versions \ {ClientVersion} =>
         /\ Log(i) # << >>
         /\ Log(i)[1] = [err |-> WrongVerErr, result |-> "undefined"]

\* C8: the identifiers come from one counter that starts at 0 and lies
\* above every identifier given out; the identifiers of the calls are
\* strictly increasing in call order, hence pairwise distinct, and a
\* registry entry belongs to the one issued call that has its identifier.
C8_Identifiers ==
  /\ calls # << >> => calls[1].id = 0
  /\ \A i \in CallIdx : 0 <= calls[i].id /\ calls[i].id < last_msg_id
  /\ \A i, j \in CallIdx : i < j => calls[i].id < calls[j].id
  /\ \A id \in DOMAIN callbacks :
       /\ callbacks[id] \in CallIdx
       /\ calls[callbacks[id]].id = id
       /\ calls[callbacks[id]].conn
  /\ \A i \in CallIdx :
       (calls[i].conn /\ Log(i) = << >> /\ calls[i].timeout = "armed")
         => (Registered(i) /\ callbacks[calls[i].id] = i)

C8_Witness ==
  /\ Len(calls) >= 2
  /\ \A i \in CallIdx : calls[i].conn /\ Registered(i)

\* C9: a step that drops a response (its identifier has no registry entry)
\* changes nothing: no callback, no notification, and registry, timers,
\* listeners, counter and connection flag as before; an identifier that was
\* never issued, or whose call has had its callback invoked, has no entry.
C9_Discard ==
  [][discarded' =>
       /\ UNCHANGED progVars
       /\ \A id \in DOMAIN callbacks :
            /\ id < last_msg_id
            /\ Log(callbacks[id]) = << >>]_vars

\* every identifier a response can carry belongs to a call, some settled
\* and some never issued, and the step just taken dropped a response
C9_Witness ==
  /\ Len(calls) = MaxCalls
  /\ callbacks = << >>
  /\ \E i \in CallIdx : calls[i].conn /\ Log(i) # << >>
  /\ \E i \in CallIdx : ~calls[i].conn
  /\ discarded

\* C10: the connection flag is false until the first link-up and from then
\* on tells whether the last transport signal was link-up; since only the
\* signals change link, no other operation changes the flag.
C10_Connected == connected = (link = "up")

C10_Witness ==
  /\ link = "down"
  /\ ~connected
  /\ \E i \in CallIdx : calls[i].conn

\* C11 (as claimed): a call rejected for lack of connection takes no
\* identifier: the counter counts the calls that were issued, so that
\* issued calls get consecutive identifiers.
C11_NoAllocation ==
  last_msg_id = Cardinality({i \in CallIdx : calls[i].conn})

\* C11 (amended): every apiTree call, rejected or issued, takes one
\* identifier: the counter counts all calls and the n-th call has the
\* identifier n - 1; a rejected call has no registry entry.
C11_Allocation ==
  /\ last_msg_id = Len(calls)
  /\ \A i \in CallIdx :
       /\ calls[i].id = i - 1
       /\ ~calls[i].conn => ~Registered(i)

C11_Witness ==
  \E i, j \in CallIdx :
    /\ j = i + 1
    /\ ~calls[i].conn
    /\ calls[j].conn
    /\ calls[j].id = calls[i].id + 1

\* C12 (as claimed): after the publish was acknowledged, an outstanding
\* call still has its 30 second timer running.
C12_TimerKeepsRunning ==
  \A i \in CallIdx :
    (calls[i].pub = "accepted" /\ Registered(i)) => calls[i].timeout = "armed"

\* C12 (amended): the acknowledgement of a publish does not settle the
\* call (no callback, registry entry and transport:down listener as
\* before) but it does stop the call's timer.
C12_AckStopsTimer ==
  [][calls' # calls =>
     \A i \in CallIdx :
       (calls[i].pub = "pending" /\ calls'[i].pub = "accepted") =>
         /\ calls'[i] = [calls[i] EXCEPT !.pub = "accepted", !.timeout = "null"]
         /\ callbacks' = callbacks
         /\ downListeners' = downListeners]_vars

C12_Witness ==
  \E i \in CallIdx :
    /\ calls[i].pub = "accepted"
    /\ Registered(i)
    /\ Bound(i)
    /\ Log(i) = << >>
    /\ calls[i].timeout = "null"

\* C13 (as claimed): only outstanding calls have a transport:down
\* listener, each at most one: a call that was settled has none, and there
\* are no more listeners of calls than registry entries.
C13_Listeners ==
  /\ \A i \in CallIdx : Bound(i) => (Registered(i) /\ Log(i) = << >>)
  /\ \A k, m \in 1..Len(downListeners) :
       downListeners[k] = downListeners[m] => k = m
  /\ Len(downListeners) <= Cardinality(DOMAIN callbacks)

\* C14: a call has a registry entry exactly while it is issued and neither
\* its callback nor its response handler has run; the entry is the call's
\* own; the registry never holds the call's entry while its callback runs.
C14_Registry ==
  \A i \in CallIdx :
    /\ Registered(i) <=>
         (calls[i].conn /\ Log(i) = << >> /\ calls[i].resp = NoMsg)
    /\ Registered(i) => callbacks[calls[i].id] = i
    /\ ~calls[i].held

C14_Witness ==
  /\ \E i \in CallIdx : calls[i].conn /\ Log(i) # << >> /\ ~Registered(i)
                         /\ Log(i)[1].err.code = ETIMEOUT
  /\ \E i \in CallIdx : calls[i].conn /\ calls[i].resp # NoMsg /\ ~Registered(i)

\* C15: a call whose response was accepted has no timer and never gets the
\* ETIMEOUT error; no call whose callback was invoked has a running timer.
C15_TimerCancelled ==
  \A i \in CallIdx :
    /\ calls[i].resp # NoMsg =>
         /\ calls[i].timeout = "null"
         /\ \A k \in 1..Len(Log(i)) : Log(i)[k].err.code # ETIMEOUT
    /\ Log(i) # << >> => calls[i].timeout # "armed"

\* the response came while the publish was not yet acknowledged, that is
\* while the timer was running
C15_Witness ==
  \E i \in CallIdx :
    /\ calls[i].resp.version = ClientVersion
    /\ calls[i].pub = "pending"
    /\ calls[i].timeout = "null"

\* C16 (as claimed): every error the callback gets carries a defined code,
\* and the codes of the four kinds the client makes are pairwise distinct.
C16_Codes ==
  /\ \A i \in CallIdx : \A k \in 1..Len(Log(i)) :
       Log(i)[k].err.kind = "Error" => Log(i)[k].err.code # "undefined"
  /\ Cardinality({ENOCONN, ETIMEOUT, EWRONGVER, ECONNGONE}) = 4

\* C17: when link-down has been processed the registry is empty and no
\* timer runs, and every call that was outstanding has had its callback
\* invoked, once by this signal, with the 'Server gone' error.
C17_LinkDownSettlesAll ==
  [][link' = "down" =>
       /\ callbacks' = << >>
       /\ \A i \in 1..Len(calls') : calls'[i].timeout # "armed"
       /\ link # "down" =>
            \A i \in CallIdx :
              Registered(i) =>
                calls'[i].log =
                  Append(calls[i].log, [err |-> GoneErr, result |-> "undefined"])]_vars

\* two calls settled by the same link-down
C17_Witness ==
  /\ link = "down"
  /\ \E i, j \in CallIdx :
       /\ i # j
       /\ Log(i) = << [err |-> GoneErr, result |-> "undefined"] >>
       /\ Log(j) = << [err |-> GoneErr, result |-> "undefined"] >>

\* C18: a call made from inside a callback that got the 'Server gone'
\* error found connected false: it was called back with ENOCONN and has no
\* registry entry, no timer, no listener and no publish.
C18_NestedRejected ==
  \A i \in CallIdx :
    calls[i].nested =>
      /\ ~calls[i].conn
      /\ Log(i) = << [err |-> NoConnErr, result |-> "undefined"] >>
      /\ ~Registered(i)
      /\ ~Bound(i)
      /\ calls[i].timeout = "undefined"
      /\ calls[i].pub = "none"

C18_Witness ==
  \E i, j \in CallIdx :
    /\ i < j
    /\ calls[j].nested
    /\ Log(i) # << >>
    /\ Log(i)[Len(Log(i))].err = GoneErr

\* C19: a step that is neither a transport signal nor an apiTree call
\* (a response, a timeout, a publish acknowledgement or rejection) changes
\* the closure, the registry entry and the listener of at most one call.
C19_Independent ==
  [][(link' = link /\ Len(calls') = Len(calls)) =>
       \/ UNCHANGED <<calls, callbacks, downListeners>>
       \/ \E i \in CallIdx :
            \A j \in CallIdx \ {i} :
              /\ calls'[j] = calls[j]
              /\ (calls[j].id \in DOMAIN callbacks') = Registered(j)
              /\ (\E k \in 1..Len(downListeners') : downListeners'[k] = j) = Bound(j)]_vars

\* the second call was settled by its response while the first call is
\* still outstanding
C19_Witness ==
  /\ Len(calls) >= 2
  /\ Registered(1) /\ calls[1].timeout = "armed" /\ Bound(1)
  /\ calls[2].resp.version = ClientVersion
  /\ Log(2) # << >>
====
